---- MODULE Spec2Model ----
(***************************************************************************)
(* A model of src/solver/wordhunt_cpp.cpp: the 4x4 word-grid solver.       *)
(*                                                                         *)
(* Characters are their byte values (97 is 'a'), strings are sequences of  *)
(* bytes.  std::isalpha and std::tolower are taken in the "C" locale, the  *)
(* locale a C++ program starts in: the letters are A-Z and a-z.            *)
(*                                                                         *)
(* Four specifications share the variables:                                *)
(*   Spec       Dictionary::solve on a constructed Dictionary              *)
(*   SpecDict   the Dictionary constructor reading its word list           *)
(*   SpecScore  calls of word_score                                        *)
(*   SpecGen    calls of generate_board                                    *)
(***************************************************************************)
EXTENDS Integers, Sequences, FiniteSets, TLC

VARIABLES
    pc,          \* where the modelled operation stands
    dictTokens,  \* the whitespace-delimited tokens read from the word list so far
    trie,        \* Dictionary::trie.t, the vector of nodes (node v is trie[v+1])
    board_obj,   \* the argument of the solve call in progress (or the last one)
    board,       \* solve's local `board`, the parsed array<char,16>
    root,        \* solve's loop variable i of line 194
    stack,       \* the activation records of dfs_all_words, innermost last
    cur,         \* solve's local `cur`, shared by reference with every DFS call
    found,       \* solve's local `found`, the unordered_set
    words,       \* the first element of the returned tuple
    total,       \* the second element of the returned tuple
    dfsCalls,    \* history: dfs_all_words invocations of the solve call
    insertCalls, \* history: outWords.insert invocations of the solve call
    lastExit,    \* history: how the DFS call that returned last left, if the
                 \* last step was a return ("range", "prune", "normal")
    scoreCalls,  \* history: the word_score calls made, each with its outcome
    rng,         \* the state of the std::mt19937 last used by generate_board
    dist,        \* random_letter's static thread_local discrete_distribution
    genCalls     \* history: the generate_board calls made, each with its result

vars == <<pc, dictTokens, trie, board_obj, board, root, stack, cur, found,
          words, total, dfsCalls, insertCalls, lastExit, scoreCalls, rng, dist,
          genCalls>>

solveVars == <<board_obj, board, root, stack, cur, found, words, total,
               dfsCalls, insertCalls, lastExit>>
genVars == <<rng, dist, genCalls>>

-----------------------------------------------------------------------------
(* Bounds of the model.                                                    *)

\* tokens in a word list read by the constructor (SpecDict)
MaxTokens == 3
\* tokens in the word list of the Dictionary that solve runs on (Spec)
MaxDictTokens == 3
\* word_score calls recorded in one behaviour (SpecScore)
MaxScoreCalls == 2
\* lengths -MaxProbe .. MaxProbe are tried by SpecScore, beside the large ones
MaxProbe == 20
\* generate_board calls in one behaviour, and the seeds 0 .. MaxSeed (SpecGen)
MaxGenCalls == 3
MaxSeed == 4

-----------------------------------------------------------------------------
(* Characters and strings.                                                 *)

\* the byte of each character the inputs below use
Ord == [a |-> 97, b |-> 98, c |-> 99, s |-> 115, t |-> 116, x |-> 120,
        A |-> 65, C |-> 67, S |-> 83, T |-> 84, X |-> 88,
        d4 |-> 52, d7 |-> 55, sp |-> 32]

\* std::isalpha, std::tolower (lines 111, 124, 135, 179, 180)
isalpha(ch) == ch \in 65..90 \/ ch \in 97..122
tolower(ch) == IF ch \in 65..90 THEN ch + 32 ELSE ch

Range(sq) == {sq[n] : n \in 1..Len(sq)}

\* a pop_back that was forgotten
PopBackForgotten(sq) == sq

\* s.pop_back()
PopBack(sq) == SubSeq(sq, 1, Len(sq) - 1)

\* operator< of std::string: lexicographic on the bytes
RECURSIVE StrLess(_, _)
StrLess(u, v) ==
    IF v = <<>> THEN FALSE
    ELSE IF u = <<>> THEN TRUE
    ELSE IF u[1] # v[1] THEN u[1] < v[1]
    ELSE StrLess(Tail(u), Tail(v))

-----------------------------------------------------------------------------
(* word_score (lines 20-30), in 32-bit int arithmetic.                     *)

IntBits == 32
HalfWord == 2 ^ (IntBits \div 2)

\* m * x + c as a two's-complement int of IntBits bits, for 0 <= x < 2^31
\* and small m, c >= 0; computed on half words so that no intermediate
\* value leaves the 32-bit range
MulAddInt(m, x, c) ==
    LET xh == x \div HalfWord
        xl == x % HalfWord
        lo == m * xl + c
        hi == (((m * xh) % HalfWord) + (lo \div HalfWord)) % HalfWord
    IN  IF hi >= HalfWord \div 2
        THEN ((hi - HalfWord) * HalfWord) + (lo % HalfWord)
        ELSE (hi * HalfWord) + (lo % HalfWord)

\* whether 2200 + 400 * (len - 8) leaves the range of int (undefined behaviour)
ScoreOverflows(len) == len >= 8 /\ len - 8 > (2147483647 - 2200) \div 400

word_score(len) ==
    IF len < 3 THEN 0
    ELSE CASE len = 3 -> 100
           [] len = 4 -> 400
           [] len = 5 -> 800
           [] len = 6 -> 1400
           [] len = 7 -> 1800
           [] OTHER   -> MulAddInt(400, len - 8, 2200)

-----------------------------------------------------------------------------
(* Trie (lines 32-53).                                                     *)

\* Node() of line 36
NewNode == [next |-> [k \in 0..25 |-> -1], terminal |-> FALSE]

\* Trie() of line 39
NewTrie == <<NewNode>>

\* Trie::insert, from node v on the suffix w of the word
RECURSIVE InsertFrom(_, _, _)
InsertFrom(t, v, w) ==
    IF w = <<>> THEN [t EXCEPT ![v + 1].terminal = TRUE]
    ELSE LET k == w[1] - Ord.a
         IN  IF t[v + 1].next[k] = -1
             THEN InsertFrom(Append([t EXCEPT ![v + 1].next[k] = Len(t)], NewNode),
                             Len(t), Tail(w))
             ELSE InsertFrom(t, t[v + 1].next[k], Tail(w))

insert(t, w) == InsertFrom(t, 0, w)

\* the strings marked terminal below node v, each prefixed by pre
RECURSIVE TerminalFrom(_, _, _)
TerminalFrom(t, v, pre) ==
    (IF t[v + 1].terminal THEN {pre} ELSE {})
    \cup UNION {TerminalFrom(t, t[v + 1].next[k], Append(pre, k + Ord.a)) :
                  k \in {j \in 0..25 : t[v + 1].next[j] # -1}}

TerminalStrings(t) == TerminalFrom(t, 0, <<>>)

-----------------------------------------------------------------------------
(* Dictionary::Dictionary (lines 169-184): one token of the word list.     *)

\* lines 175-181: the lowercased token, and whether every byte was a letter
RECURSIVE LowerWhileAlpha(_, _)
LowerWhileAlpha(w, s) ==
    IF w = <<>> THEN [ok |-> TRUE, s |-> s]
    ELSE IF ~isalpha(w[1]) THEN [ok |-> FALSE, s |-> s]
    ELSE LowerWhileAlpha(Tail(w), Append(s, tolower(w[1])))

\* a length test that is off by one
TokenAcceptedLonger(f) == f.ok /\ Len(f.s) > 3

\* line 182
MinWordLen == 3
TokenAccepted(f) == f.ok /\ Len(f.s) >= MinWordLen

\* the body of the loop of line 174 for the token w
ReadToken(t, w) ==
    LET f == LowerWhileAlpha(w, <<>>)
    IN  IF TokenAccepted(f) THEN insert(t, f.s) ELSE t

RECURSIVE ReadAll(_, _)
ReadAll(t, ws) == IF ws = <<>> THEN t ELSE ReadAll(ReadToken(t, ws[1]), Tail(ws))

-----------------------------------------------------------------------------
(* build_neighbors_4x4 (lines 55-68).                                      *)

GridSide == 4
NumCells == GridSide * GridSide

idx(r, c) == r * GridSide + c

\* the (dr, dc) pairs in the order of the loops of line 60
Deltas == <<<<-1, -1>>, <<-1, 0>>, <<-1, 1>>, <<0, -1>>, <<0, 0>>, <<0, 1>>,
            <<1, -1>>, <<1, 0>>, <<1, 1>>>>

RECURSIVE NeighborsFrom(_, _, _)
NeighborsFrom(r, c, n) ==
    IF n > Len(Deltas) THEN <<>>
    ELSE LET nr == r + Deltas[n][1]
             nc == c + Deltas[n][2]
             rest == NeighborsFrom(r, c, n + 1)
         IN  IF Deltas[n] = <<0, 0>> THEN rest
             ELSE IF 0 <= nr /\ nr < GridSide /\ 0 <= nc /\ nc < GridSide
                  THEN <<idx(nr, nc)>> \o rest
                  ELSE rest

\* the neighbours without the diagonal ones (dr and dc both nonzero skipped)
build_neighbors_no_diagonal ==
    [v \in 0..(NumCells - 1) |->
        SelectSeq(NeighborsFrom(v \div GridSide, v % GridSide, 1),
                  LAMBDA u : (u \div GridSide = v \div GridSide) \/ (u % GridSide = v % GridSide))]

\* nbr[v], for the cell v = idx(r, c)
build_neighbors_4x4 ==
    [v \in 0..(NumCells - 1) |-> NeighborsFrom(v \div GridSide, v % GridSide, 1)]

nbr == build_neighbors_4x4

-----------------------------------------------------------------------------
(* parse_board_any (lines 100-144).  A board argument is a Python str      *)
(* ([kind |-> "str", s |-> bytes]), a sequence of str items                *)
(* ([kind |-> "seq", items |-> strings]) or any other object.              *)

\* lines 110-112 and 124: the letters of s, lowercased, appended to t
RECURSIVE LettersOf(_, _)
LettersOf(s, t) ==
    IF s = <<>> THEN t
    ELSE LettersOf(Tail(s), IF isalpha(s[1]) THEN Append(t, tolower(s[1])) ELSE t)

\* lines 122-125
RECURSIVE LettersOfRows(_, _)
LettersOfRows(rows, t) ==
    IF rows = <<>> THEN t ELSE LettersOfRows(Tail(rows), LettersOf(rows[1], t))

\* lines 114 and 127: b[i] = t[i]
ArrayOf(t) == [i \in 0..(NumCells - 1) |-> t[i + 1]]

\* array<char, 16> b{}
ZeroBoard == [i \in 0..(NumCells - 1) |-> 0]

Thrown == [ok |-> FALSE, b |-> ZeroBoard]
Parsed(b) == [ok |-> TRUE, b |-> b]

\* a parse of a str that does not check the number of letters: the cells past
\* the letters keep the zero of b{}
ParseStrUnchecked(s) ==
    LET t == LettersOf(s, <<>>)
    IN  Parsed([i \in 0..(NumCells - 1) |-> IF i + 1 <= Len(t) THEN t[i + 1] ELSE 0])

\* lines 107-116
ParseStr(s) ==
    LET t == LettersOf(s, <<>>)
    IN  IF Len(t) # NumCells THEN Thrown ELSE Parsed(ArrayOf(t))

\* lines 120-129
ParseRows(items) ==
    LET t == LettersOfRows(items, <<>>)
    IN  IF Len(t) # NumCells THEN Thrown ELSE Parsed(ArrayOf(t))

\* lines 132-140
ParseCells(items) ==
    IF \E i \in 1..NumCells : Len(items[i]) # 1 \/ ~isalpha(items[i][1])
    THEN Thrown
    ELSE Parsed([i \in 0..(NumCells - 1) |-> tolower(items[i + 1][1])])

parse_board_any(obj) ==
    IF obj.kind = "str" THEN ParseStr(obj.s)
    ELSE IF obj.kind = "seq" /\ Len(obj.items) = GridSide THEN ParseRows(obj.items)
    ELSE IF obj.kind = "seq" /\ Len(obj.items) = NumCells THEN ParseCells(obj.items)
    ELSE Thrown

-----------------------------------------------------------------------------
(* dfs_all_words (lines 70-98) and Dictionary::solve (lines 186-206).      *)

MaskBits == 16

\* (usedMask >> to) & 1u, line 93
TestBit(mask, to) == (mask \div (2 ^ to)) % 2 = 1

\* a mask in which the cell is never marked
SetBitForgotten(mask, cell) == mask

\* usedMask |= (uint16_t)(1u << cell), line 87
SetBit(mask, cell) ==
    IF TestBit(mask, cell) THEN mask ELSE (mask + ((2 ^ cell) % (2 ^ MaskBits))) % (2 ^ MaskBits)

\* a container that keeps every inserted string, as a vector would
PushBackAlways(set, w) == Append(set, w)

\* outWords.insert(cur), line 90: found holds its elements in the order
\* they were first inserted (the set's iteration order is unspecified and
\* is read only by the sort of line 197)
UnorderedSetInsert(set, w) == IF w \in Range(set) THEN set ELSE Append(set, w)

\* the activation record of a call dfs_all_words(cell, usedMask, trieNode, ...);
\* cur0 and mask0 are history: cur and the usedMask argument at call entry
Frame(cell, mask, node, c) ==
    [cell |-> cell, usedMask |-> mask, trieNode |-> node, nxt |-> -1, it |-> 1,
     at |-> "entry", cur0 |-> c, mask0 |-> mask]

Top == stack[Len(stack)]
Return == SubSeq(stack, 1, Len(stack) - 1)
SetTop(f) == [stack EXCEPT ![Len(stack)] = f]

\* a comparator that puts the shorter word first
WordBeforeAscending(u, v) == IF Len(u) # Len(v) THEN Len(u) < Len(v) ELSE StrLess(u, v)

\* the comparator of lines 197-200
WordBefore(u, v) == IF Len(u) # Len(v) THEN Len(u) > Len(v) ELSE StrLess(u, v)

\* std::sort of line 197, as an insertion sort with that comparator
RECURSIVE SortInsert(_, _)
SortInsert(sorted, w) ==
    IF sorted = <<>> THEN <<w>>
    ELSE IF WordBefore(w, sorted[1]) THEN <<w>> \o sorted
    ELSE <<sorted[1]>> \o SortInsert(Tail(sorted), w)

RECURSIVE SortWords(_)
SortWords(ws) == IF ws = <<>> THEN <<>> ELSE SortInsert(SortWords(Tail(ws)), ws[1])

\* a total that is assigned instead of accumulated
ScoreOfLast(ws) == IF ws = <<>> THEN 0 ELSE word_score(Len(ws[Len(ws)]))

\* lines 202-203
RECURSIVE SumScores(_)
SumScores(ws) ==
    IF ws = <<>> THEN 0 ELSE word_score(Len(ws[1])) + SumScores(Tail(ws))

\* lines 187-192: parse the argument, then the fresh found and cur
Solve(obj) ==
    /\ pc \in {"ready", "returned", "raised"}
    /\ LET p == parse_board_any(obj)
       IN  /\ pc' = IF p.ok THEN "search" ELSE "raised"
           /\ board' = p.b
    /\ board_obj' = obj
    /\ root' = 0
    /\ stack' = <<>>
    /\ cur' = <<>>
    /\ found' = <<>>
    /\ words' = <<>>
    /\ total' = 0
    /\ dfsCalls' = 0
    /\ insertCalls' = 0
    /\ lastExit' = "none"
    /\ UNCHANGED <<dictTokens, trie, scoreCalls, genVars>>

\* line 194: the call dfs_all_words(i, 0, 0, ...) of the next root cell
SolveLoop ==
    /\ pc = "search"
    /\ stack = <<>>
    /\ root < NumCells
    /\ stack' = <<Frame(root, 0, 0, cur)>>
    /\ root' = root + 1
    /\ dfsCalls' = dfsCalls + 1
    /\ lastExit' = "none"
    /\ UNCHANGED <<pc, dictTokens, trie, board_obj, board, cur, found, words,
                   total, insertCalls, scoreCalls, genVars>>

\* lines 80-90: the two early returns, or mark, append and record
DfsEnter ==
    /\ pc = "search"
    /\ stack # <<>>
    /\ Top.at = "entry"
    /\ LET ch == board[Top.cell]
           k == ch - Ord.a
           nxt == IF k < 0 \/ k >= 26 THEN -1 ELSE trie[Top.trieNode + 1].next[k]
           word == Append(cur, ch)
       IN  IF k < 0 \/ k >= 26 \/ nxt = -1
           THEN /\ stack' = Return
                /\ lastExit' = IF k < 0 \/ k >= 26 THEN "range" ELSE "prune"
                /\ UNCHANGED <<cur, found, insertCalls>>
           ELSE /\ lastExit' = "none"
                /\ stack' = SetTop([Top EXCEPT !.usedMask = SetBit(Top.usedMask, Top.cell),
                                               !.nxt = nxt, !.at = "loop"])
                /\ cur' = word
                /\ IF trie[nxt + 1].terminal /\ Len(word) >= MinWordLen
                   THEN /\ found' = UnorderedSetInsert(found, word)
                        /\ insertCalls' = insertCalls + 1
                   ELSE UNCHANGED <<found, insertCalls>>
    /\ UNCHANGED <<pc, dictTokens, trie, board_obj, board, root, words, total,
                   dfsCalls, scoreCalls, genVars>>

\* lines 92-95: one iteration of the loop over nbr[cell]
DfsLoop ==
    /\ pc = "search"
    /\ stack # <<>>
    /\ Top.at = "loop"
    /\ Top.it <= Len(nbr[Top.cell])
    /\ LET to == nbr[Top.cell][Top.it]
           me == [Top EXCEPT !.it = Top.it + 1]
       IN  IF TestBit(Top.usedMask, to)
           THEN /\ stack' = SetTop(me)
                /\ UNCHANGED dfsCalls
           ELSE /\ stack' = Append(SetTop(me), Frame(to, Top.usedMask, Top.nxt, cur))
                /\ dfsCalls' = dfsCalls + 1
    /\ lastExit' = "none"
    /\ UNCHANGED <<pc, dictTokens, trie, board_obj, board, root, cur, found,
                   words, total, insertCalls, scoreCalls, genVars>>

\* lines 97-98: cur.pop_back() and the return
DfsReturn ==
    /\ pc = "search"
    /\ stack # <<>>
    /\ Top.at = "loop"
    /\ Top.it > Len(nbr[Top.cell])
    /\ cur' = PopBack(cur)
    /\ stack' = Return
    /\ lastExit' = "normal"
    /\ UNCHANGED <<pc, dictTokens, trie, board_obj, board, root, found, words,
                   total, dfsCalls, insertCalls, scoreCalls, genVars>>

\* lines 196-205: copy found, sort, sum, return the tuple
SolveReturn ==
    /\ pc = "search"
    /\ stack = <<>>
    /\ root = NumCells
    /\ words' = SortWords(found)
    /\ total' = SumScores(SortWords(found))
    /\ pc' = "returned"
    /\ lastExit' = "none"
    /\ UNCHANGED <<dictTokens, trie, board_obj, board, root, stack, cur, found,
                   dfsCalls, insertCalls, scoreCalls, genVars>>

-----------------------------------------------------------------------------
(* The inputs of Spec: word lists and board arguments.                     *)

SeqsUpTo(S, n) == UNION {[1..m -> S] : m \in 0..n}

\* cat  Cats  act  tat  at
WordPool ==
    {<<Ord.c, Ord.a, Ord.t>>, <<Ord.C, Ord.a, Ord.t, Ord.s>>,
     <<Ord.a, Ord.c, Ord.t>>, <<Ord.t, Ord.a, Ord.t>>, <<Ord.a, Ord.t>>}

DictFiles == SeqsUpTo(WordPool, MaxDictTokens)

Str(s) == [kind |-> "str", s |-> s]
Items(q) == [kind |-> "seq", items |-> q]
Fill(n) == [i \in 1..n |-> Ord.x]
Cells(s) == [i \in 1..Len(s) |-> <<s[i]>>]

BoardInputs ==
    LET a == Ord.a  c == Ord.c  s == Ord.s  t == Ord.t  x == Ord.x
    IN  { \* "catsxxxxxxxxxxxx": the board of the example
          Str(<<c, a, t, s>> \o Fill(12)),
          \* ["cats", "xxxx", "xxxx", "xxxx"]
          Items(<<<<c, a, t, s>>, Fill(4), Fill(4), Fill(4)>>),
          \* "CATXXATXXXXXXXXS": upper case, cat on four paths, s far away
          Str(<<Ord.C, Ord.A, Ord.T, Ord.X, Ord.X, Ord.A, Ord.T>> \o
              [i \in 1..8 |-> Ord.X] \o <<Ord.S>>),
          \* "caxx tsxx xxxx xxxx": c, a, t, s mutually adjacent, rows spaced
          Str(<<c, a, x, x, Ord.sp, t, s, x, x, Ord.sp>> \o Fill(4) \o
              <<Ord.sp>> \o Fill(4)),
          \* 16 cells "T", "a", "t", "x", ...
          Items(Cells(<<Ord.T, a, t>> \o Fill(13))),
          \* 17 characters, 16 of them letters: "cats7xxxxxxxxxxxx"
          Str(<<c, a, t, s, Ord.d7>> \o Fill(12)),
          \* 15 letters
          Str(<<c, a, t, s>> \o Fill(11)),
          \* 16 characters, one a digit: "cat4xxxxxxxxxxxx"
          Str(<<c, a, t, Ord.d4>> \o Fill(12)),
          \* 17 letters
          Str(<<c, a, t, s>> \o Fill(13)),
          \* 4 rows with 15 letters in all
          Items(<<<<c, a, t, s>>, Fill(4), Fill(4), Fill(3)>>),
          \* 16 cells, one of them "7"
          Items(Cells(<<c, a, t, Ord.d7>> \o Fill(12))),
          \* 16 cells, one of them "ca"
          Items(<<<<c, a>>>> \o Cells(Fill(15))),
          \* 3 rows, and an object that is neither str nor sequence
          Items(<<Fill(4), Fill(4), Fill(4)>>),
          [kind |-> "other"] }

-----------------------------------------------------------------------------
(* Spec: solve calls on a Dictionary constructed from one of the word      *)
(* lists.                                                                  *)

NoBoardObj == [kind |-> "none"]

SolveIdle ==
    /\ board_obj = NoBoardObj
    /\ board = ZeroBoard
    /\ root = 0
    /\ stack = <<>>
    /\ cur = <<>>
    /\ found = <<>>
    /\ words = <<>>
    /\ total = 0
    /\ dfsCalls = 0
    /\ insertCalls = 0
    /\ lastExit = "none"

OthersIdle ==
    /\ scoreCalls = <<>>
    /\ rng = [seed |-> -1, drawn |-> 0]
    /\ dist = [constructed |-> FALSE, p |-> <<>>]
    /\ genCalls = <<>>

Init ==
    /\ pc = "ready"
    /\ dictTokens \in DictFiles
    /\ trie = ReadAll(NewTrie, dictTokens)
    /\ SolveIdle
    /\ OthersIdle

Next ==
    \/ \E obj \in BoardInputs : Solve(obj)
    \/ SolveLoop
    \/ DfsEnter
    \/ DfsLoop
    \/ DfsReturn
    \/ SolveReturn

Spec == Init /\ [][Next]_vars

-----------------------------------------------------------------------------
(* What the claims speak of, stated without the solver's own data.         *)

CellSet == 0..(NumCells - 1)

Abs(n) == IF n < 0 THEN -n ELSE n

\* king-move adjacency: Chebyshev distance 1 on the grid
Adjacent(i, j) ==
    /\ i # j
    /\ Abs((i \div GridSide) - (j \div GridSide)) <= 1
    /\ Abs((i % GridSide) - (j % GridSide)) <= 1

\* whether w[n..] can be spelled by a walk that continues from cell `at`
\* over cells outside `used`
RECURSIVE SpellFrom(_, _, _, _, _)
SpellFrom(w, n, at, used, b) ==
    \/ n > Len(w)
    \/ \E to \in CellSet \ used :
          /\ Adjacent(at, to)
          /\ b[to] = w[n]
          /\ SpellFrom(w, n + 1, to, used \cup {to}, b)

\* w is spelled by a self-avoiding walk over adjacent cells of board b
Spellable(w, b) ==
    /\ w # <<>>
    /\ \E c0 \in CellSet : b[c0] = w[1] /\ SpellFrom(w, 2, c0, {c0}, b)

\* the number of such walks
RECURSIVE WalksFrom(_, _, _, _, _)
WalksFrom(w, n, at, used, b) ==
    IF n > Len(w) THEN {<<>>}
    ELSE UNION {{<<to>> \o r : r \in WalksFrom(w, n + 1, to, used \cup {to}, b)} :
                  to \in {d \in CellSet \ used : Adjacent(at, d) /\ b[d] = w[n]}}

Walks(w, b) ==
    UNION {{<<c0>> \o r : r \in WalksFrom(w, 2, c0, {c0}, b)} :
             c0 \in {d \in CellSet : b[d] = w[1]}}

Lowered(w) == [i \in 1..Len(w) |-> tolower(w[i])]

\* the dictionary a token sequence stands for: the lowercased tokens made of
\* letters only and at least three long
DictWords(tokens) ==
    {Lowered(w) : w \in {u \in Range(tokens) :
                           Len(u) >= 3 /\ \A i \in 1..Len(u) : isalpha(u[i])}}

RECURSIVE SetSum(_)
SetSum(S) ==
    IF S = {} THEN 0
    ELSE LET w == CHOOSE u \in S : TRUE
         IN  word_score(Len(w)) + SetSum(S \ {w})

WordCat == <<Ord.c, Ord.a, Ord.t>>
WordCats == <<Ord.c, Ord.a, Ord.t, Ord.s>>
WordTat == <<Ord.t, Ord.a, Ord.t>>

-----------------------------------------------------------------------------
(* The claims about solve, under Spec.                                     *)

\* C1: completeness of solve.  When solve has returned, every string of
\* length >= 3 that is marked terminal in the trie and is spelled by a
\* self-avoiding walk over king-move-adjacent cells of the board is in the
\* returned word list.
C1_Complete ==
    pc = "returned" =>
        \A w \in TerminalStrings(trie) :
            Len(w) >= 3 /\ Spellable(w, board) => w \in Range(words)

\* a call that returned a word spelled with a diagonal step while another
\* word of the trie is not on the board, so that branches were pruned
C1_Witness ==
    /\ pc = "returned"
    /\ WordCat \in Range(words)
    /\ \A p \in Walks(WordCat, board) : \E n \in 1..2 :
          Abs(p[n] - p[n + 1]) \notin {1, GridSide}
    /\ \E w \in TerminalStrings(trie) : ~Spellable(w, board)

\* C2: soundness of solve.  Every returned word is a word of the dictionary
\* the trie was built from and is spelled by a sequence of pairwise distinct
\* cells, consecutive ones within Chebyshev distance 1.
C2_Sound ==
    pc = "returned" =>
        \A w \in Range(words) :
            w \in DictWords(dictTokens) /\ Spellable(w, board)

\* a call that returned a word while the dictionary holds "tat" and the
\* board could spell it only by using its one t twice
C2_Witness ==
    /\ pc = "returned"
    /\ words # <<>>
    /\ WordTat \in DictWords(dictTokens)
    /\ WordTat \notin Range(words)
    /\ Cardinality({c0 \in CellSet : board[c0] = Ord.t}) = 1
    /\ \E c0 \in CellSet : board[c0] = Ord.t /\ \E d \in CellSet :
          Adjacent(c0, d) /\ board[d] = Ord.a

\* C3: the returned total is the sum of word_score(length) taken once per
\* distinct returned word, however many walks spell the word.
C3_TotalOverDistinctWords ==
    pc = "returned" => total = SetSum(Range(words))

\* a call where a word was spelled on several walks and counted once
C3_Witness ==
    /\ pc = "returned"
    /\ Range(words) = {WordCat}
    /\ Cardinality(Walks(WordCat, board)) >= 2
    /\ total = 100

\* C4: the returned word list holds no word twice, also when several
\* self-avoiding walks spell the same dictionary word.
C4_NoDuplicates ==
    pc = "returned" =>
        \A i, j \in 1..Len(words) : i # j => words[i] # words[j]

\* a call where outWords.insert ran more often than there are words
C4_Witness ==
    /\ pc = "returned"
    /\ words # <<>>
    /\ insertCalls > Len(words)
    /\ \E w \in Range(words) : Cardinality(Walks(w, board)) >= 2

\* the board argument of the example: rows cats / xxxx / xxxx / xxxx
ExampleRows == Items(<<WordCats, Fill(4), Fill(4), Fill(4)>>)

\* C8: the returned words are in descending length and, at equal length, in
\* ascending lexical order; the dictionary {cat, cats} on the rows
\* cats/xxxx/xxxx/xxxx gives [cats, cat] and 500.
C8_Order ==
    pc = "returned" =>
        /\ \A i \in 1..(Len(words) - 1) :
              \/ Len(words[i]) > Len(words[i + 1])
              \/ Len(words[i]) = Len(words[i + 1]) /\ StrLess(words[i], words[i + 1])
        /\ (board_obj = ExampleRows /\ DictWords(dictTokens) = {WordCat, WordCats})
              => words = <<WordCats, WordCat>> /\ total = 500

WordAct == <<Ord.a, Ord.c, Ord.t>>

\* a call that found cat, cats, act in that order and returned cats, act, cat
C8_Witness ==
    /\ pc = "returned"
    /\ found = <<WordCat, WordCats, WordAct>>
    /\ words = <<WordCats, WordAct, WordCat>>
    /\ total = 600

\* the example's call returned, the sort having reversed the order of discovery
C8_Example ==
    /\ pc = "returned"
    /\ board_obj = ExampleRows
    /\ DictWords(dictTokens) = {WordCat, WordCats}
    /\ found = <<WordCat, WordCats>>
    /\ words = <<WordCats, WordCat>>

IsDigit(ch) == ch \in 48..57
LetterCount(s) == Cardinality({i \in 1..Len(s) : isalpha(s[i])})
HasDigit(s) == \E i \in 1..Len(s) : IsDigit(s[i])

InCall == pc \in {"search", "returned", "raised"}

\* C6, as claimed: a board string that has 15 letters, or that contains a
\* digit, makes solve raise, and no DFS call is made for that call.
C6_DigitRejected ==
    (InCall /\ board_obj.kind = "str"
        /\ (LetterCount(board_obj.s) = 15 \/ HasDigit(board_obj.s)))
    => (pc = "raised" /\ dfsCalls = 0)

\* C6, amended: a board string whose letters, the other characters being
\* stripped, are not 16 in number (15 letters; 16 characters one of which is
\* a digit) makes solve raise, and no DFS call is made for that call; a board
\* string with 16 letters is not rejected, whatever digits stand between them.
C6_LetterCountRejected ==
    (InCall /\ board_obj.kind = "str") =>
        IF LetterCount(board_obj.s) # NumCells
        THEN pc = "raised" /\ dfsCalls = 0 /\ stack = <<>> /\ found = <<>>
        ELSE pc # "raised"

\* solve has raised on a 16-character string in which a digit replaces a letter
C6_Witness ==
    /\ pc = "raised"
    /\ board_obj.kind = "str"
    /\ Len(board_obj.s) = NumCells
    /\ HasDigit(board_obj.s)
    /\ LetterCount(board_obj.s) = 15

\* C10: every return of dfs_all_words (out-of-range letter, missing trie
\* child, or after the loop over the neighbours) leaves the shared path string
\* and the caller's visited mask as they were at call entry, and every call a
\* DFS call makes starts from the same path and mask: those of its caller's
\* entry extended by the caller's cell.
C10_Backtrack ==
    /\ [][Len(stack') < Len(stack) =>
            /\ lastExit' \in {"range", "prune", "normal"}
            /\ cur' = Top.cur0
            /\ Len(stack) > 1 =>
                  /\ stack'[Len(stack')].usedMask = Top.mask0
                  /\ cur' = Append(stack'[Len(stack')].cur0,
                                   board[stack'[Len(stack')].cell])]_vars
    /\ [](\A n \in 2..Len(stack) :
            /\ stack[n].cur0 = Append(stack[n - 1].cur0, board[stack[n - 1].cell])
            /\ stack[n].mask0 = SetBit(stack[n - 1].mask0, stack[n - 1].cell)
            /\ ~TestBit(stack[n].mask0, stack[n].cell))

\* a call two cells deep has returned after its loop to a caller that has
\* already seen a pruned call and still has neighbours to try
C10_Witness ==
    /\ pc = "search"
    /\ lastExit = "normal"
    /\ Len(stack) >= 2
    /\ Top.it > 2
    /\ Top.it <= Len(nbr[Top.cell])
    /\ cur = Append(Top.cur0, board[Top.cell])

\* a pruned call has just returned to its caller
C10_WitnessPrune ==
    /\ pc = "search"
    /\ lastExit = "prune"
    /\ stack # <<>>
    /\ cur = Append(Top.cur0, board[Top.cell])

-----------------------------------------------------------------------------
(* SpecDict: the constructor of Dictionary (lines 169-184) reading a word  *)
(* list token by token.                                                    *)

\* cat  Cats  at  c4ts  cab  CAT
TokenPool ==
    {<<Ord.c, Ord.a, Ord.t>>, <<Ord.C, Ord.a, Ord.t, Ord.s>>, <<Ord.a, Ord.t>>,
     <<Ord.c, Ord.d4, Ord.t, Ord.s>>, <<Ord.c, Ord.a, Ord.b>>,
     <<Ord.C, Ord.A, Ord.T>>}

InitDict ==
    /\ pc = "open"
    /\ dictTokens = <<>>
    /\ trie = NewTrie
    /\ SolveIdle
    /\ OthersIdle

\* lines 170-171: the word list opens, or the constructor throws
DictOpen(opened) ==
    /\ pc = "open"
    /\ pc' = IF opened THEN "reading" ELSE "open_failed"
    /\ UNCHANGED <<dictTokens, trie, solveVars, scoreCalls, genVars>>

\* lines 174-183: one iteration of while (in >> w)
DictRead(w) ==
    /\ pc = "reading"
    /\ Len(dictTokens) < MaxTokens
    /\ dictTokens' = Append(dictTokens, w)
    /\ trie' = ReadToken(trie, w)
    /\ UNCHANGED <<pc, solveVars, scoreCalls, genVars>>

\* line 174: the stream is exhausted, the constructor returns
DictEof ==
    /\ pc = "reading"
    /\ pc' = "ready"
    /\ UNCHANGED <<dictTokens, trie, solveVars, scoreCalls, genVars>>

NextDict ==
    \/ \E opened \in BOOLEAN : DictOpen(opened)
    \/ \E w \in TokenPool : DictRead(w)
    \/ DictEof

SpecDict == InitDict /\ [][NextDict]_vars

\* whether a token is one the build policy inserts
PolicyAccepts(w) == Len(w) >= 3 /\ \A i \in 1..Len(w) : isalpha(w[i])

\* C9: at every point of the load the strings marked terminal in the trie are
\* exactly the lowercased tokens read so far that are made of letters only and
\* are at least 3 long; reading any other token changes nothing in the trie
\* and does not end the load; and no token read removes or unmarks a word.
C9_BuildPolicy ==
    /\ [](pc \in {"reading", "ready"} =>
            TerminalStrings(trie) = DictWords(dictTokens))
    /\ [][Len(dictTokens') = Len(dictTokens) + 1 =>
            /\ pc' = "reading"
            /\ TerminalStrings(trie) \subseteq TerminalStrings(trie')
            /\ ~PolicyAccepts(dictTokens'[Len(dictTokens')]) => trie' = trie]_vars

\* the load of "Cats c4ts cat" has ended: the middle token was skipped and the
\* last one marked a node the first one had made
C9_Witness ==
    /\ pc = "ready"
    /\ dictTokens = <<<<Ord.C, Ord.a, Ord.t, Ord.s>>, <<Ord.c, Ord.d4, Ord.t, Ord.s>>, WordCat>>
    /\ TerminalStrings(trie) = {WordCat, WordCats}
    /\ Len(trie) = 5

-----------------------------------------------------------------------------
(* SpecScore: calls of word_score (lines 20-30) with an int argument.      *)

IntMax == 2147483647

\* what a call word_score(len) can give: the value; where the arithmetic of
\* line 28 overflows int the behaviour is undefined, and a build either wraps
\* (the value word_score gives) or traps
WordScoreOutcomes(len) ==
    {[kind |-> "value", v |-> word_score(len)]}
    \cup (IF ScoreOverflows(len) THEN {[kind |-> "trap", v |-> 0]} ELSE {})

\* the lengths tried: the small ones around the table, the last length whose
\* score fits an int and the first whose score does not, and the ends of int
ScoreInputs ==
    (-MaxProbe..MaxProbe)
    \cup {5368711, 5368712, 10737425, IntMax, -IntMax - 1}

InitScore ==
    /\ pc = "score"
    /\ dictTokens = <<>>
    /\ trie = NewTrie
    /\ SolveIdle
    /\ OthersIdle

WordScoreCall(len) ==
    /\ Len(scoreCalls) < MaxScoreCalls
    /\ \E out \in WordScoreOutcomes(len) :
          scoreCalls' = Append(scoreCalls, [len |-> len, out |-> out])
    /\ UNCHANGED <<pc, dictTokens, trie, solveVars, genVars>>

NextScore == \E len \in ScoreInputs : WordScoreCall(len)

SpecScore == InitScore /\ [][NextScore]_vars

\* whether v is the table's score of length len; for len >= 8 the equation
\* v = 2200 + 400 * (len - 8) is solved for len
TableScore(len, v) ==
    IF len < 3 THEN v = 0
    ELSE CASE len = 3 -> v = 100
           [] len = 4 -> v = 400
           [] len = 5 -> v = 800
           [] len = 6 -> v = 1400
           [] len = 7 -> v = 1800
           [] OTHER   -> /\ v >= 2200
                         /\ (v - 2200) % 400 = 0
                         /\ (v - 2200) \div 400 = len - 8

\* C5: for every int length L, word_score(L) is the table's value (0 below 3;
\* 100, 400, 800, 1400, 1800 for 3..7; 2200 + 400*(L-8) from 8 on), and the
\* function is monotonically non-decreasing in L.
C5_ScoreTable ==
    /\ \A n \in 1..Len(scoreCalls) :
          /\ scoreCalls[n].out.kind = "value"
          /\ TableScore(scoreCalls[n].len, scoreCalls[n].out.v)
    /\ \A m, n \in 1..Len(scoreCalls) :
          scoreCalls[m].len <= scoreCalls[n].len
              => scoreCalls[m].out.v <= scoreCalls[n].out.v

\* the same restricted to the lengths whose score fits an int
C5_ScoreTableWithinInt ==
    /\ \A n \in 1..Len(scoreCalls) :
          ~ScoreOverflows(scoreCalls[n].len) =>
              /\ scoreCalls[n].out.kind = "value"
              /\ TableScore(scoreCalls[n].len, scoreCalls[n].out.v)
    /\ \A m, n \in 1..Len(scoreCalls) :
          (scoreCalls[m].len <= scoreCalls[n].len /\ ~ScoreOverflows(scoreCalls[n].len))
              => scoreCalls[m].out.v <= scoreCalls[n].out.v

-----------------------------------------------------------------------------
(* SpecGen: calls of generate_board (lines 146-163).                       *)
(*                                                                         *)
(* std::mt19937 is a deterministic generator: its state is a function of   *)
(* its seed and of the number of outputs drawn so far, which is how the    *)
(* engine is held here.  Its output function is stood in for by a fixed    *)
(* mixing function of 7 bits.  discrete_distribution::operator() reads a   *)
(* number in [0, 1) off two outputs of the engine and returns the index    *)
(* whose interval of the normalised cumulative weights holds it; it keeps  *)
(* its weights and nothing else.                                           *)

\* freq of lines 147-151, in hundredths
Freq == <<817, 149, 278, 425, 1270, 223, 202, 609, 697, 15, 77, 403,
          241, 675, 751, 193, 10, 599, 633, 906, 276, 98, 236, 15, 197, 7>>

RECURSIVE SumTo(_, _)
SumTo(p, k) == IF k = 0 THEN 0 ELSE p[k] + SumTo(p, k - 1)

\* a static engine, seeded by the first call only
Mt19937Static(seed) ==
    IF rng.seed = -1 THEN [seed |-> seed, drawn |-> 0] ELSE rng

\* std::mt19937 rng(seed), line 158
Mt19937(seed) == [seed |-> seed, drawn |-> 0]

\* the output of the engine r, and the engine after it
Mt19937Output(r) ==
    ((r.seed + 1) * 7919 + (r.drawn + 1) * 104729 + (r.seed + 3) * (r.drawn + 5) * 31) % 128
Mt19937Advance(r) == [r EXCEPT !.drawn = r.drawn + 1]

\* line 153: the distribution, constructed by the first call that reaches it
DiscreteDistribution(d) ==
    IF d.constructed THEN d ELSE [constructed |-> TRUE, p |-> Freq]

\* dist(rng), line 154: the index drawn; u / 16384 is the number in [0, 1)
DistDraw(d, r) ==
    LET u == Mt19937Output(r) + 128 * Mt19937Output(Mt19937Advance(r))
    IN  CHOOSE k \in 0..(Len(d.p) - 1) :
            /\ u * SumTo(d.p, Len(d.p)) < SumTo(d.p, k + 1) * 16384
            /\ k > 0 => u * SumTo(d.p, Len(d.p)) >= SumTo(d.p, k) * 16384

\* random_letter (lines 146-155): the letter, the engine and the distribution after
random_letter(r, d) ==
    LET d1 == DiscreteDistribution(d)
    IN  [ch |-> Ord.a + DistDraw(d1, r),
         rng |-> Mt19937Advance(Mt19937Advance(r)),
         dist |-> d1]

\* the loop of line 161, from index i on
RECURSIVE GenerateLoop(_, _, _, _)
GenerateLoop(i, r, d, out) ==
    IF i >= NumCells THEN [out |-> out, rng |-> r, dist |-> d]
    ELSE LET l == random_letter(r, d)
         IN  GenerateLoop(i + 1, l.rng, l.dist, Append(out, l.ch))

\* generate_board_py (lines 157-163)
generate_board_py(seed, d) == GenerateLoop(0, Mt19937(seed), d, <<>>)

InitGen ==
    /\ pc = "gen"
    /\ dictTokens = <<>>
    /\ trie = NewTrie
    /\ SolveIdle
    /\ OthersIdle

GenerateBoard(seed) ==
    /\ Len(genCalls) < MaxGenCalls
    /\ LET g == generate_board_py(seed, dist)
       IN  /\ genCalls' = Append(genCalls, [seed |-> seed, out |-> g.out])
           /\ rng' = g.rng
           /\ dist' = g.dist
    /\ UNCHANGED <<pc, dictTokens, trie, solveVars, scoreCalls>>

NextGen == \E seed \in 0..MaxSeed : GenerateBoard(seed)

SpecGen == InitGen /\ [][NextGen]_vars

\* C7: any two calls generate_board(S) with the same seed return the same
\* string, whatever calls with other seeds were made in between, and every
\* returned string has exactly 16 characters, each in a..z.
C7_Deterministic ==
    /\ \A m, n \in 1..Len(genCalls) :
          genCalls[m].seed = genCalls[n].seed => genCalls[m].out = genCalls[n].out
    /\ \A n \in 1..Len(genCalls) :
          /\ Len(genCalls[n].out) = 16
          /\ \A i \in 1..16 : genCalls[n].out[i] \in 97..122

\* a seed was used, then another seed that gave another board, then the first
\* seed again
C7_Witness ==
    /\ Len(genCalls) = 3
    /\ genCalls[1].seed = genCalls[3].seed
    /\ genCalls[1].seed # genCalls[2].seed
    /\ genCalls[1].out # genCalls[2].out
    /\ dist.constructed

====
